---- MODULE Spec2Model ----
(***************************************************************************)
(* Model of the table/book resolution engine of ve-bot (src/src/lib/       *)
(* books.py): Page, GroupOfPages, Book, TableEntry, Table, Library, and of *)
(* the library reference of the application (src/src/vebot.py).            *)
(*                                                                         *)
(* Python strings are sequences of one-character strings, so that          *)
(* str.replace, str.split, int() and string formatting are computed as the *)
(* code computes them.  JSON values whose type the code does not fix       *)
(* (forced_roll, the rolled id) carry a type tag: [t |-> "int", v |-> 2],  *)
(* [t |-> "str", v |-> <<"2">>]; an absent key or attribute is Absent.     *)
(***************************************************************************)
EXTENDS Integers, Sequences, FiniteSets, TLC

VARIABLES
    book,       \* the JSON document a Table is constructed from
    table,      \* the Table object: Absent before construction, Raised(..) if load raised
    call,       \* the query or command in hand (find, roll, search, set) with what it returned
    entry,      \* the TableEntry or Page whose property (result, id_as_range) is read
    count,      \* what roll_dice returned for the entry's Number (0: not rolled)
    resolved,   \* value of the property TableEntry.result, or Absent before the read
    disk,       \* the JSON documents of each books directory, in the order glob lists them
    settings,   \* the user-facing attributes of the Settings object
    library,    \* App.library, Absent as long as App.__init__ has not assigned it
    loading,    \* the Library that Library(settings) is constructing, Absent if none
    stack       \* the frames of the calls of Table.roll in progress, the innermost last

vars == <<book, table, call, entry, count, resolved, disk, settings, library, loading, stack>>

\* the variables of the application, which the engine alone never touches
appVars == <<disk, settings, library, loading>>

Absent == [t |-> "absent"]
StrV(s) == [t |-> "str", v |-> s]
IntV(i) == [t |-> "int", v |-> i]
\* Python's None (JSON null)
NoneV == [t |-> "none"]
\* an exception leaving the operation
Raised(e) == [t |-> "raised", v |-> e]

\* no application: the engine is used on its own, no roll in progress
NoApp ==
    /\ disk = Absent /\ settings = Absent /\ library = Absent /\ loading = Absent
    /\ stack = <<>>

\* bool(x) of a JSON value or a missing attribute guarded by hasattr / in;
\* the documents of the model hold no empty dict
Truthy(x) ==
    CASE x.t = "str" -> x.v # <<>>
      [] x.t = "int" -> x.v # 0
      [] x.t = "table" -> TRUE
      [] x.t = "dict" -> TRUE
      [] OTHER -> FALSE

-----------------------------------------------------------------------------
(* Bounds *)

\* longest Details template, in tokens
MaxTokens == 3
\* largest value the Dice Evaluator returns for a Number expression
MaxCount == 3
\* most pages in the Pages list of a table document
MaxPages == 2
\* largest value the Dice Evaluator returns for a Die or Number of a table
MaxDie == 2
\* largest integer in the Id of a page whose range is read
MaxId == 11
\* most pages in the Pages list of a document of the load specification
MaxLoadPages == 3
\* most JSON files in the top books directory
MaxFiles == 2
\* deepest nesting of tables in a document of the recursion specification
MaxDepth == 3
\* the interpreter's recursion limit, in frames of Table.roll
MaxStack == 5

-----------------------------------------------------------------------------
(* Python string primitives *)

NL == "\n"

RECURSIVE Flatten(_)
Flatten(ss) == IF ss = <<>> THEN <<>> ELSE Head(ss) \o Flatten(Tail(ss))

StartsWith(s, p) == Len(p) <= Len(s) /\ SubSeq(s, 1, Len(p)) = p

\* old in s
Contains(s, old) == \E i \in 1..(Len(s) - Len(old) + 1) : SubSeq(s, i, i + Len(old) - 1) = old

\* s.replace(old, new) for a non-empty old: leftmost non-overlapping occurrences
RECURSIVE Replace(_, _, _)
Replace(s, old, new) ==
    IF Len(s) < Len(old) THEN s
    ELSE IF StartsWith(s, old)
         THEN new \o Replace(SubSeq(s, Len(old) + 1, Len(s)), old, new)
         ELSE <<Head(s)>> \o Replace(Tail(s), old, new)

\* s.count(old): number of non-overlapping occurrences
RECURSIVE Occurrences(_, _)
Occurrences(s, old) ==
    IF Len(s) < Len(old) THEN 0
    ELSE IF StartsWith(s, old)
         THEN 1 + Occurrences(SubSeq(s, Len(old) + 1, Len(s)), old)
         ELSE Occurrences(Tail(s), old)

Digit(d) == CASE d = 0 -> "0" [] d = 1 -> "1" [] d = 2 -> "2" [] d = 3 -> "3"
              [] d = 4 -> "4" [] d = 5 -> "5" [] d = 6 -> "6" [] d = 7 -> "7"
              [] d = 8 -> "8" [] d = 9 -> "9"

\* str(n) for an int n
RECURSIVE ToDecimal(_)
ToDecimal(n) ==
    IF n < 0 THEN <<"-">> \o ToDecimal(0 - n)
    ELSE IF n < 10 THEN <<Digit(n)>>
    ELSE ToDecimal(n \div 10) \o <<Digit(n % 10)>>

-----------------------------------------------------------------------------
(* TableEntry.result: the pluralization template *)

\* hasattr(self, 'Number') and self.Number
HasNumber(e) == e.Number.t = "str" /\ e.Number.v # <<>>

Marker1 == <<"a", "$", "(", "-", "e", "s", ")">>
Marker2 == <<"$", "(", "e", "s", ")">>

\* count == 1 handled by the count > 1 branch
result_NoSingular(e, rolled) ==
    LET cnt == IF HasNumber(e) THEN rolled ELSE 0
        d1 == IF cnt >= 1
              THEN LET a == Replace(e.Details, <<"#", "a">>, ToDecimal(cnt))
                       b == Replace(a, <<"#">>, ToDecimal(cnt))
                       c == Replace(b, Marker1, <<"e", "s">>)
                       d == Replace(c, Marker2, <<"e", "s">>)
                   IN  Replace(d, <<"$">>, <<"s">>)
              ELSE e.Details
        d2 == Replace(d1, <<"#", "a">>, <<>>)
        d3 == Replace(d2, <<"#">>, <<>>)
        d4 == Replace(d3, <<"$">>, <<>>)
    IN  Replace(d4, <<" ", " ">>, <<" ">>)

\* the generic '$' -> 's' rule applied before the irregular-plural markers
result_PluralFirst(e, rolled) ==
    LET cnt == IF HasNumber(e) THEN rolled ELSE 0
        d1 == IF cnt = 1 THEN Replace(e.Details, <<"#">>, <<"u", "n">>)
              ELSE IF cnt > 1
              THEN LET a == Replace(e.Details, <<"#", "a">>, ToDecimal(cnt))
                       b == Replace(a, <<"#">>, ToDecimal(cnt))
                       c == Replace(b, <<"$">>, <<"s">>)
                       d == Replace(c, Marker1, <<"e", "s">>)
                   IN  Replace(d, Marker2, <<"e", "s">>)
              ELSE e.Details
        d2 == Replace(d1, <<"#", "a">>, <<>>)
        d3 == Replace(d2, <<"#">>, <<>>)
        d4 == Replace(d3, <<"$">>, <<>>)
    IN  Replace(d4, <<" ", " ">>, <<" ">>)

\* TableEntry.result, rolled being what roll_dice returns if it is called
result(e, rolled) ==
    LET cnt == IF HasNumber(e) THEN rolled ELSE 0
        d1 == IF cnt = 1 THEN Replace(e.Details, <<"#">>, <<"u", "n">>)
              ELSE IF cnt > 1
              THEN LET a == Replace(e.Details, <<"#", "a">>, ToDecimal(cnt))
                       b == Replace(a, <<"#">>, ToDecimal(cnt))
                       c == Replace(b, Marker1, <<"e", "s">>)
                       d == Replace(c, Marker2, <<"e", "s">>)
                   IN  Replace(d, <<"$">>, <<"s">>)
              ELSE e.Details
        d2 == Replace(d1, <<"#", "a">>, <<>>)
        d3 == Replace(d2, <<"#">>, <<>>)
        d4 == Replace(d3, <<"$">>, <<>>)
    IN  Replace(d4, <<" ", " ">>, <<" ">>)

-----------------------------------------------------------------------------
(* Inputs and actions of the template specification *)

Tokens == { <<"#">>, <<"a">>, <<"$">>, <<" ">>, <<"g">>, Marker1, Marker2 }

TokenSeqs == UNION { [1..n -> Tokens] : n \in 0..MaxTokens }

Bruixes == <<"b", "r", "u", "i", "x", "$", "(", "e", "s", ")">>
OneGoblin == <<"#", " ", "g", "o", "b", "l", "i", "n", "$">>
AGoblin == <<"#", "a", " ", "g", "o", "b", "l", "i", "n", "#">>

Templates == { Flatten(ts) : ts \in TokenSeqs } \cup { Bruixes, OneGoblin, AGoblin }

\* the Number field of an entry: no key, an empty string, a dice expression
Numbers == { Absent, StrV(<<>>), StrV(<<"1", "d", "4">>) }

Counts == 0..MaxCount

InitTemplate ==
    /\ book = Absent /\ table = Absent /\ call = Absent
    /\ entry \in { [Details |-> d, Number |-> n] : d \in Templates, n \in Numbers }
    /\ count = 0
    /\ resolved = Absent
    /\ NoApp

\* one read of entry.result; roll_dice(Number), when called, returns rolled
Result(rolled) ==
    /\ count' = IF HasNumber(entry) THEN rolled ELSE 0
    /\ resolved' = StrV(result(entry, rolled))
    /\ UNCHANGED <<entry, book, table, call, appVars, stack>>

NextTemplate == \E rolled \in Counts : Result(rolled)

SpecTemplate == InitTemplate /\ [][NextTemplate]_vars

-----------------------------------------------------------------------------
(* Properties of template resolution *)

Un == <<"u", "n">>
One == <<"o", "n", "e">>
Hash == <<"#">>
Goblin == <<"g", "o", "b", "l", "i", "n">>

\* C9 as stated: with count = 1 every '#' of Details becomes the word "one",
\* so '# goblin$' resolves to 'one goblin'.
C9_Original ==
    (resolved.t = "str" /\ count = 1) =>
        /\ ~Contains(resolved.v, Hash)
        /\ Occurrences(resolved.v, One) = Occurrences(entry.Details, Hash)
        /\ entry.Details = OneGoblin => resolved.v = One \o <<" ">> \o Goblin

\* C9 amended: with count = 1 every '#' of Details becomes the word "un",
\* so '# goblin$' resolves to 'un goblin'.
C9_SingularUn ==
    (resolved.t = "str" /\ count = 1) =>
        /\ ~Contains(resolved.v, Hash)
        /\ Occurrences(resolved.v, Un) = Occurrences(entry.Details, Hash)
        /\ entry.Details = OneGoblin => resolved.v = Un \o <<" ">> \o Goblin

C9_Witness ==
    /\ resolved.t = "str" /\ count = 1
    /\ entry.Details = OneGoblin
    /\ resolved.v = Un \o <<" ">> \o Goblin

\* a marker whose '$' was turned into 's' leaves its parenthesis behind
Mangled(s) == Contains(s, <<"(">>)

PluralRules ==
    /\ ~Contains(resolved.v, Hash)
    /\ Occurrences(resolved.v, ToDecimal(count)) = Occurrences(entry.Details, Hash)
    /\ ~Mangled(resolved.v)
    /\ Occurrences(resolved.v, <<"e", "s">>)
         = Occurrences(entry.Details, Marker1) + Occurrences(entry.Details, Marker2)
    /\ Occurrences(resolved.v, <<"s">>) = Occurrences(entry.Details, <<"$">>)
    /\ (entry.Details = Bruixes /\ count = 2)
         => resolved.v = <<"b", "r", "u", "i", "x", "e", "s">>

\* C10 as stated: with count > 1 '#a' and '#' become the decimal count, the
\* markers 'a$(-es)' and '$(es)' become 'es' and the other '$' become 's';
\* the '$' of a marker is never turned into 's'.
C10_Original ==
    (resolved.t = "str" /\ count > 1) => PluralRules

\* C10 amended: the same, for every template in which no 'a$(-es)' marker
\* directly follows a '#' (there '#a' consumes the marker's 'a').
C10_PluralMarkers ==
    (resolved.t = "str" /\ count > 1 /\ ~Contains(entry.Details, Hash \o Marker1))
        => PluralRules

C10_Witness ==
    /\ resolved.t = "str" /\ count = 2
    /\ entry.Details = Bruixes
    /\ resolved.v = <<"b", "r", "u", "i", "x", "e", "s">>

-----------------------------------------------------------------------------
(* Page and GroupOfPages: the Id as a range *)

\* s.split("-")
RECURSIVE SplitDash(_)
SplitDash(s) ==
    IF \A i \in 1..Len(s) : s[i] # "-" THEN <<s>>
    ELSE LET i == CHOOSE k \in 1..Len(s) : s[k] = "-" /\ \A j \in 1..(k - 1) : s[j] # "-"
         IN  <<SubSeq(s, 1, i - 1)>> \o SplitDash(SubSeq(s, i + 1, Len(s)))

DigitValue(c) == CASE c = "0" -> 0 [] c = "1" -> 1 [] c = "2" -> 2 [] c = "3" -> 3
                   [] c = "4" -> 4 [] c = "5" -> 5 [] c = "6" -> 6 [] c = "7" -> 7
                   [] c = "8" -> 8 [] c = "9" -> 9

IsDigit(c) == c \in {"0", "1", "2", "3", "4", "5", "6", "7", "8", "9"}

RECURSIVE DecimalValue(_)
DecimalValue(s) ==
    IF s = <<>> THEN 0
    ELSE 10 * DecimalValue(SubSeq(s, 1, Len(s) - 1)) + DigitValue(s[Len(s)])

\* int(s) for a string of the model's alphabet (digits and '-'): ValueError
\* unless s is a non-empty string of decimal digits
ParseInt(s) ==
    IF s # <<>> /\ \A i \in 1..Len(s) : IsDigit(s[i])
    THEN IntV(DecimalValue(s))
    ELSE Raised("ValueError")

\* range(a, b): the upper end left out
RangeOf_HalfOpen(a, b) ==
    IF a.t = "raised" THEN a
    ELSE IF b.t = "raised" THEN b
    ELSE [t |-> "range", start |-> a.v, stop |-> b.v]

\* range(a, b + 1) of two parsed integers
RangeOf(a, b) ==
    IF a.t = "raised" THEN a
    ELSE IF b.t = "raised" THEN b
    ELSE [t |-> "range", start |-> a.v, stop |-> b.v + 1]

\* Page.id_as_range
Page_id_as_range(page) ==
    IF page.Id.t # "str" THEN Raised("AttributeError")
    ELSE LET values == SplitDash(page.Id.v)
         IN  IF Len(values) = 1
             THEN RangeOf(ParseInt(page.Id.v), ParseInt(page.Id.v))
             ELSE RangeOf(ParseInt(values[1]), ParseInt(values[2]))

\* GroupOfPages.id_as_range
GroupOfPages_id_as_range(group) ==
    LET values == SplitDash(group.gid.v)
    IN  IF Len(values) = 1
        THEN RangeOf(ParseInt(group.gid.v), ParseInt(group.gid.v))
        ELSE RangeOf(ParseInt(values[1]), ParseInt(values[2]))

\* entry.id_as_range of a slot of Book._pages
id_as_range(x) ==
    IF x.t = "group" THEN GroupOfPages_id_as_range(x) ELSE Page_id_as_range(x)

\* every entry matches every rid
InRange_Always(rid, r) == TRUE

\* rid in range(start, stop): a str is never equal to an element of a range
InRange(rid, r) == rid.t = "int" /\ r.start <= rid.v /\ rid.v < r.stop

-----------------------------------------------------------------------------
(* Book.load, Table.load, TableEntry *)

\* the two pages stored in reverse order
GroupOfPages_Reversed(page0, page1) ==
    [t |-> "group", gid |-> page0.Id, pages |-> <<page1, page0>>]

\* GroupOfPages(page0, page1)
GroupOfPages(page0, page1) == [t |-> "group", gid |-> page0.Id, pages |-> <<page0, page1>>]

\* index of key in the dict items, 0 if the key is not there
KeyIndex(items, key) ==
    IF \E i \in 1..Len(items) : items[i].key = key
    THEN CHOOSE i \in 1..Len(items) : items[i].key = key
    ELSE 0

\* one iteration of the loop of Book.load over book['Pages']; page is what
\* make_page returned, pages the dict so far (insertion-ordered items)
AddPage(pages, page) ==
    IF pages.t = "raised" THEN pages
    ELSE IF page.t = "raised" THEN page
    ELSE IF page.Id.t = "absent" THEN Raised("AttributeError")
    ELSE LET i == KeyIndex(pages.items, page.Id)
         IN  IF i = 0
             THEN [pages EXCEPT !.items = Append(@, [key |-> page.Id, val |-> page])]
             ELSE IF pages.items[i].val.t = "group"
             \* page0.add(page): GroupOfPages defines no method add
             THEN Raised("AttributeError")
             ELSE [pages EXCEPT !.items[i] =
                       [key |-> page.Id, val |-> GroupOfPages(pages.items[i].val, page)]]

RECURSIVE Table_init(_), TableEntry_init(_), LoadPages(_, _)

\* TableEntry(page_dict): Page.__init__ calling TableEntry.add for each key
TableEntry_init(page_dict) ==
    LET sub == IF page_dict.Table.t = "absent" THEN Absent
               ELSE IF Truthy(page_dict.Table) THEN Table_init(page_dict.Table)
               ELSE NoneV
    IN  IF sub.t = "raised" THEN sub
        ELSE [t |-> "page", Id |-> page_dict.Id, Details |-> page_dict.Details,
              Number |-> page_dict.Number, Table |-> sub]

\* the loop of Book.load over the rest of book['Pages'], make_page making a TableEntry
LoadPages(Pages, pages) ==
    IF Pages = <<>> \/ pages.t = "raised" THEN pages
    ELSE LoadPages(Tail(Pages), AddPage(pages, TableEntry_init(Head(Pages))))

\* Table(book=doc): Book.__init__, Table.load, Book.load(book, True)
Table_init(doc) ==
    IF ~Truthy(doc) THEN Raised("RuntimeError")
    ELSE IF doc.Id.t = "absent" \/ doc.Title.t = "absent" \/ doc.Type.t = "absent"
    THEN Raised("KeyError")
    ELSE IF ~(doc.Type.t = "int" /\ doc.Type.v \in {1, 2}) THEN Raised("ValueError")
    ELSE IF doc.Pages.t = "absent" THEN Raised("KeyError")
    ELSE LET pages == LoadPages(doc.Pages.v, [t |-> "pages", items |-> <<>>])
         IN  IF pages.t = "raised" THEN pages
             ELSE IF doc.Die.t = "absent" THEN Raised("KeyError")
             ELSE [t |-> "table", bid |-> doc.Id, title |-> doc.Title, type |-> doc.Type.v,
                   pages |-> pages.items, Die |-> doc.Die,
                   forced_roll |-> doc.forced_roll,
                   rop |-> IF doc.rop.t = "absent" THEN "replace" ELSE doc.rop.v]

-----------------------------------------------------------------------------
(* Table.find and Table.roll *)

RECURSIVE FindFrom(_, _, _)
\* the loop of Table.find over self._pages.values(), entries being the list so far
FindFrom(items, rid, entries) ==
    IF items = <<>> THEN [t |-> "list", v |-> entries]
    ELSE LET e == Head(items).val
             r == id_as_range(e)
         IN  IF r.t = "raised" THEN r
             ELSE IF InRange(rid, r)
             THEN FindFrom(Tail(items), rid,
                           IF e.t = "group" THEN entries \o e.pages ELSE entries \o <<e>>)
             ELSE FindFrom(Tail(items), rid, entries)

RECURSIVE FindFrom_FirstOfGroup(_, _, _)
\* a matching group contributes its first page only
FindFrom_FirstOfGroup(items, rid, entries) ==
    IF items = <<>> THEN [t |-> "list", v |-> entries]
    ELSE LET e == Head(items).val
             r == id_as_range(e)
         IN  IF r.t = "raised" THEN r
             ELSE IF InRange(rid, r)
             THEN FindFrom_FirstOfGroup(Tail(items), rid,
                      IF e.t = "group" THEN entries \o <<e.pages[1]>> ELSE entries \o <<e>>)
             ELSE FindFrom_FirstOfGroup(Tail(items), rid, entries)

find_FirstOfGroup(T, rid) == FindFrom_FirstOfGroup(T.pages, rid, <<>>)

\* Table.find(rid)
find(T, rid) == FindFrom(T.pages, rid, <<>>)

\* '{rid}' in an f-string: str() of an int, the string itself for a str
Format(x) == IF x.t = "int" THEN ToDecimal(x.v) ELSE x.v

\* f'{die} -> **{rid}**'
ExplanationLine(die, rid) ==
    die.v \o <<" ", "-", ">", " ", "*", "*">> \o Format(rid) \o <<"*", "*">>

\* forced_roll never consulted
RolledId_Unforced(T, rolled) == IntV(rolled)

\* the rid Table.roll looks up: the rolled value unless forced_roll is set and truthy
RolledId(T, rolled) == IF Truthy(T.forced_roll) THEN T.forced_roll ELSE IntV(rolled)

\* "append" and "concat" swapped
Merge_Swapped(rop, cresult, sresult) ==
    IF sresult = <<>> THEN cresult
    ELSE CASE rop = "replace" -> sresult
           [] rop = "append" -> cresult \o sresult
           [] rop = "concat" -> cresult \o <<NL>> \o sresult
           [] OTHER -> cresult

\* "replace" keeps the entry's text in front of the nested result
Merge_ReplaceKeeps(rop, cresult, sresult) ==
    IF sresult = <<>> THEN cresult
    ELSE CASE rop = "replace" -> cresult \o sresult
           [] rop = "append" -> cresult \o <<NL>> \o sresult
           [] rop = "concat" -> cresult \o sresult
           [] OTHER -> cresult

\* the merge of a nested roll (sresult) into the entry's text (cresult)
Merge(rop, cresult, sresult) ==
    IF sresult = <<>> THEN cresult
    ELSE CASE rop = "replace" -> sresult
           [] rop = "append" -> cresult \o <<NL>> \o sresult
           [] rop = "concat" -> cresult \o sresult
           [] OTHER -> cresult

\* the nested lines put in front of the lines collected so far
Explain_Prepend(explanation, sresult, sexpl) ==
    IF sresult = <<>> THEN explanation ELSE sexpl \o explanation

\* explanation += sexpl, which the code does only under `if sresult:`
Explain(explanation, sresult, sexpl) ==
    IF sresult = <<>> THEN explanation ELSE explanation \o sexpl

\* result = result + "\n" + cresult
Accumulate(res, cresult) == res \o <<NL>> \o cresult

\* the policy declared on the nested table ignored
Policy_Replace(e) == "replace"

\* the policy Table.roll consults for the nested table of entry e
Policy(e) == e.Table.rop

\* the locals of Table.roll after one iteration of its for loop: entry e,
\* text its entry.result, sub what entry.Table.roll() returned (Absent when
\* the entry has no nested table), used1 the roll_dice calls made before it
AfterEntry(acc, e, text, sub, used1) ==
    IF sub.t = "raised" THEN sub
    ELSE IF sub.t = "absent"
    THEN [acc EXCEPT !.result = Accumulate(@, text),
                     !.steps = Append(@, [entry |-> e, text |-> text, sub |-> sub,
                                          cresult |-> text, before |-> acc.explanation,
                                          after |-> acc.explanation]),
                     !.used = used1]
    ELSE [acc EXCEPT !.result = Accumulate(@, Merge(Policy(e), text, sub.result)),
                     !.explanation = Explain(@, sub.result, sub.explanation),
                     !.steps = Append(@, [entry |-> e, text |-> text, sub |-> sub,
                                          cresult |-> Merge(Policy(e), text, sub.result),
                                          before |-> acc.explanation,
                                          after |-> Explain(acc.explanation, sub.result,
                                                            sub.explanation)]),
                     !.used = used1 + sub.used]

RECURSIVE roll(_, _), RollLoop(_, _, _), RollEntry(_, _, _, _)

\* one iteration: entry.result first, then entry.Table.roll() if there is one
RollEntry(acc, e, dice, used1) ==
    AfterEntry(acc, e,
               result(e, IF HasNumber(e) THEN dice[used1] ELSE 0),
               IF Truthy(e.Table) THEN roll(e.Table, SubSeq(dice, used1 + 1, Len(dice)))
               ELSE Absent,
               used1)

\* the for loop of Table.roll; dice are the values roll_dice returns in call
\* order, acc the locals result and explanation, with the loop's iterations
\* recorded in steps and the number of roll_dice calls so far in used
RollLoop(entries, dice, acc) ==
    IF entries = <<>> \/ acc.t = "raised" THEN acc
    ELSE RollLoop(Tail(entries), dice,
                  RollEntry(acc, Head(entries), dice,
                            acc.used + (IF HasNumber(Head(entries)) THEN 1 ELSE 0)))

\* Table.roll() from the call of find on
RollFound(T, dice, rid, entries) ==
    IF entries.t = "raised" THEN entries
    ELSE RollLoop(entries.v, dice,
                  [t |-> "rolled", rid |-> rid, result |-> <<>>,
                   explanation |-> <<ExplanationLine(T.Die, rid)>>,
                   steps |-> <<>>, used |-> 1])

\* Table.roll(), dice being the values roll_dice returns, in call order
roll(T, dice) == RollFound(T, dice, RolledId(T, Head(dice)), find(T, RolledId(T, Head(dice))))

-----------------------------------------------------------------------------
(* Table documents of the specification *)

Chars(c1, c2, c3) == <<c1, c2, c3>>

PageDict(id, det, num, tab) == [Id |-> StrV(id), Details |-> det, Number |-> num, Table |-> tab]

TableDict(die, forced, rop, pages) ==
    [t |-> "dict", Id |-> StrV(<<"t">>), Title |-> StrV(<<"T">>), Type |-> IntV(2),
     Die |-> StrV(die), forced_roll |-> forced, rop |-> rop,
     Pages |-> [t |-> "list", v |-> pages]]

RopV(r) == [t |-> "str", v |-> r]

\* the value of "rop" in a document: no key, or one of the three policies
Rops == { Absent, RopV("replace"), RopV("append"), RopV("concat") }

\* nested tables: one entry, matched by a roll of 1 only
SubTables == { TableDict(Chars("1", "d", "3"), Absent, rop, << PageDict(<<"1">>, <<"b">>, Absent, Absent) >>)
                 : rop \in Rops }

Ids == { <<"1">>, <<"1", "-", "2">> }

\* entries: plain text, a numbered template, a nested table, and "Table": null
EntryDicts ==
    { PageDict(id, <<"a">>, Absent, Absent) : id \in Ids }
    \cup { PageDict(<<"1", "-", "2">>, <<"a">>, Absent, tab) : tab \in SubTables }
    \cup { PageDict(id, <<"#", " ", "g", "$">>, StrV(Chars("1", "d", "4")), Absent) : id \in Ids }
    \cup { PageDict(<<"1", "-", "2">>, <<"c">>, Absent, NoneV) }

PageLists == UNION { [1..n -> EntryDicts] : n \in 0..MaxPages }

\* the value of "forced_roll": no key, "", "2", 2
ForcedRolls == { Absent, StrV(<<>>), StrV(<<"2">>), IntV(2) }

TableDicts ==
    { TableDict(Chars("1", "d", "2"), forced, Absent, pages) :
        forced \in ForcedRolls, pages \in PageLists }
    \cup { TableDict(Chars("1", "d", "2"), Absent, RopV("append"), pages) : pages \in PageLists }

\* what the Dice Evaluator may return
Dice == 0..MaxDie

-----------------------------------------------------------------------------
(* The table specification                                                 *)
(*                                                                         *)
(* The engine is single-threaded and synchronous: a query runs to          *)
(* completion and its caller is done with the returned value before the    *)
(* next query starts.  call holds the query whose value the caller has in  *)
(* hand, Return hands control back.                                        *)

Init ==
    /\ book \in TableDicts
    /\ table = Absent
    /\ call = Absent
    /\ entry = Absent /\ count = 0 /\ resolved = Absent
    /\ NoApp

\* Table(book=...)
Construct ==
    /\ table = Absent
    /\ table' = Table_init(book)
    /\ UNCHANGED <<book, call, entry, count, resolved, appVars, stack>>

\* table.find(rid) with an integer rid
Find(rid) ==
    /\ table.t = "table" /\ call = Absent
    /\ call' = [t |-> "find", rid |-> IntV(rid), out |-> find(table, IntV(rid))]
    /\ UNCHANGED <<book, table, entry, count, resolved, appVars, stack>>

\* all pages of a list of slots
RECURSIVE PagesOf(_)
PagesOf(items) ==
    IF items = <<>> THEN <<>>
    ELSE (IF Head(items).val.t = "group" THEN Head(items).val.pages ELSE <<Head(items).val>>)
         \o PagesOf(Tail(items))

\* most roll_dice calls a roll over these entries makes after the table's own
RECURSIVE DiceNeeded(_)
DiceNeeded(entries) ==
    IF entries = <<>> THEN 0
    ELSE LET e == Head(entries)
         IN  (IF HasNumber(e) THEN 1 ELSE 0)
             + (IF Truthy(e.Table) THEN 1 + DiceNeeded(PagesOf(e.Table.pages)) ELSE 0)
             + DiceNeeded(Tail(entries))

\* the record of a roll: the values roll_dice returned and what roll returned
RollCall(dice, out) ==
    [t |-> "roll", dice |-> SubSeq(dice, 1, IF out.t = "raised" THEN 1 ELSE out.used),
     out |-> out]

\* most roll_dice calls of table.roll() after the first, which returned die
DiceAfter(T, die, entries) == IF entries.t = "raised" THEN 0 ELSE DiceNeeded(entries.v)

\* roll() with the assignment reversed: self.forced_roll = rid
Roll_StoresRid ==
    /\ table.t = "table" /\ call = Absent
    /\ \E die \in Dice :
         /\ \E rest \in [1..DiceAfter(table, die, find(table, RolledId(table, die))) -> Dice] :
               call' = RollCall(<<die>> \o rest, roll(table, <<die>> \o rest))
         /\ table' = [table EXCEPT !.forced_roll = RolledId(table, die)]
    /\ UNCHANGED <<book, entry, count, resolved, appVars, stack>>

\* BooksCog.rollt calls table.roll(); the Dice Evaluator returns dice
Roll ==
    /\ table.t = "table" /\ call = Absent
    /\ \E die \in Dice :
         \E rest \in [1..DiceAfter(table, die, find(table, RolledId(table, die))) -> Dice] :
            call' = RollCall(<<die>> \o rest, roll(table, <<die>> \o rest))
    /\ UNCHANGED <<book, table, entry, count, resolved, appVars, stack>>

\* the caller is done with what the query or command returned; a Library
\* left half built by an exception is dropped with the frame that held it
Return ==
    /\ call # Absent /\ loading.t # "loading"
    /\ call' = Absent
    /\ loading' = Absent
    /\ UNCHANGED <<book, table, entry, count, resolved, disk, settings, library, stack>>

Next == Construct \/ (\E rid \in Dice : Find(rid)) \/ Roll \/ Return

Spec == Init /\ [][Next]_vars

-----------------------------------------------------------------------------
(* Properties of Table.find and Table.roll *)

\* the integer r lies in the inclusive range the Id string denotes
IdContains(id, r) ==
    LET values == SplitDash(id.v)
    IN  /\ ParseInt(values[1]).v <= r
        /\ r <= ParseInt(values[Len(values)]).v

\* the pages of the document whose Id range contains r, as loaded entries
RECURSIVE Matching(_, _)
Matching(Pages, r) ==
    IF Pages = <<>> THEN <<>>
    ELSE (IF IdContains(Head(Pages).Id, r) THEN <<TableEntry_init(Head(Pages))>> ELSE <<>>)
         \o Matching(Tail(Pages), r)

Times(seq, x) == Cardinality({ i \in 1..Len(seq) : seq[i] = x })

\* the two lists hold the same entries, each as many times
SameEntries(a, b) ==
    /\ Len(a) = Len(b)
    /\ \A i \in 1..Len(a) : Times(a, a[i]) = Times(b, a[i])

IsFind == call.t = "find"
IsRoll == call.t = "roll"

\* the entries the loop of roll went through
Processed == [i \in 1..Len(call.out.steps) |-> call.out.steps[i].entry]

\* the contributions (cresult) of the entries, in loop order
Contributions == [i \in 1..Len(call.out.steps) |-> call.out.steps[i].cresult]

\* C1: find(r) with an integer r returns exactly the entries of the document
\* whose Id range contains r, the pages of a group included, and no other.
C1_FindMatching ==
    IsFind =>
        /\ call.out.t = "list"
        /\ SameEntries(call.out.v, Matching(book.Pages.v, call.rid.v))

C1_Witness ==
    /\ IsFind
    /\ \E i \in 1..Len(table.pages) :
          /\ table.pages[i].val.t = "group"
          /\ IdContains(table.pages[i].key, call.rid.v)
    /\ Len(call.out.v) = 2

ForcedString == table.forced_roll.t = "str" /\ table.forced_roll.v # <<>>

\* C2: with forced_roll a non-empty string denoting N, roll() reports N in
\* explanation[0] and resolves exactly the entries whose Id range contains N.
C2_ForcedRollUsed ==
    (IsRoll /\ ForcedString) =>
        LET N == ParseInt(table.forced_roll.v)
        IN  /\ call.out.t = "rolled"
            /\ call.out.explanation[1] = ExplanationLine(table.Die, N)
            /\ SameEntries(Processed, Matching(book.Pages.v, N.v))

\* C3 as stated: with forced_roll set, any other call of roll() returns the
\* same result and explanation, whatever the Dice Evaluator returns.
C3_Original ==
    (IsRoll /\ Truthy(table.forced_roll)) =>
        \A dice \in [1..Len(call.dice) -> Dice] :
            /\ roll(table, dice).result = call.out.result
            /\ roll(table, dice).explanation = call.out.explanation

\* C3 amended: with forced_roll set, a call in which the Dice Evaluator
\* returns another value for the table's own Die and the same values for the
\* Number expressions and the nested tables returns the same result and
\* explanation.
C3_ForcedRepeatable ==
    (IsRoll /\ Truthy(table.forced_roll)) =>
        \A die \in Dice :
            /\ roll(table, <<die>> \o Tail(call.dice)).result = call.out.result
            /\ roll(table, <<die>> \o Tail(call.dice)).explanation = call.out.explanation

C3_Witness ==
    /\ IsRoll /\ table.forced_roll = IntV(2)
    /\ call.dice[1] # 2
    /\ Len(call.dice) > 1
    /\ call.out.result # <<>>

\* step of the loop of roll whose entry has a nested table with policy rop
NestedStep(st, rop) == st.sub.t = "rolled" /\ st.entry.Table.rop = rop

\* C4 as stated: under Append the contribution is the entry's text, one
\* newline, the nested roll's text; under Concat the entry's text directly
\* followed by the nested roll's text.
C4_Original ==
    IsRoll => \A i \in 1..Len(call.out.steps) :
        LET st == call.out.steps[i]
        IN  /\ NestedStep(st, "append") => st.cresult = st.text \o <<NL>> \o st.sub.result
            /\ NestedStep(st, "concat") => st.cresult = st.text \o st.sub.result

\* C4 amended: the same when the nested roll's result is not empty; when it
\* is empty the contribution is the entry's text alone, under both policies.
C4_AppendConcat ==
    IsRoll => \A i \in 1..Len(call.out.steps) :
        LET st == call.out.steps[i]
        IN  /\ (NestedStep(st, "append") /\ st.sub.result # <<>>)
                 => st.cresult = st.text \o <<NL>> \o st.sub.result
            /\ (NestedStep(st, "concat") /\ st.sub.result # <<>>)
                 => st.cresult = st.text \o st.sub.result
            /\ ((NestedStep(st, "append") \/ NestedStep(st, "concat")) /\ st.sub.result = <<>>)
                 => st.cresult = st.text

C4_Witness ==
    /\ IsRoll
    /\ \E i \in 1..Len(call.out.steps) :
          /\ NestedStep(call.out.steps[i], "append")
          /\ call.out.steps[i].sub.result # <<>>
    /\ \E i \in 1..Len(call.out.steps) :
          /\ NestedStep(call.out.steps[i], "concat")
          /\ call.out.steps[i].sub.result # <<>>

\* C5 as stated: under Replace the contribution is the nested roll's result,
\* also when the nested roll matches no entry.
C5_Original ==
    IsRoll => \A i \in 1..Len(call.out.steps) :
        LET st == call.out.steps[i]
        IN  NestedStep(st, "replace") => st.cresult = st.sub.result

\* C5 amended: under Replace the contribution is the nested roll's result when
\* that result is not empty; when the nested roll matches no entry the
\* contribution is the entry's own resolved text.
C5_Replace ==
    IsRoll => \A i \in 1..Len(call.out.steps) :
        LET st == call.out.steps[i]
        IN  NestedStep(st, "replace") =>
                st.cresult = IF st.sub.result # <<>> THEN st.sub.result ELSE st.text

C5_Witness ==
    /\ IsRoll
    /\ \E i \in 1..Len(call.out.steps) :
          /\ NestedStep(call.out.steps[i], "replace")
          /\ call.out.steps[i].sub.result # <<>>
          /\ call.out.steps[i].cresult # call.out.steps[i].text

\* the explanation after the loop is the first line followed, step by step,
\* by what each step added
ExplanationThreaded ==
    /\ \A i \in 1..Len(call.out.steps) :
          call.out.steps[i].before =
              IF i = 1 THEN <<call.out.explanation[1]>> ELSE call.out.steps[i - 1].after
    /\ call.out.explanation =
          IF call.out.steps = <<>> THEN <<call.out.explanation[1]>>
          ELSE call.out.steps[Len(call.out.steps)].after

\* C6 as stated: the lines of every nested roll are appended, in order, to
\* the explanation, whatever the policy and also when the nested result is
\* empty.
C6_Original ==
    IsRoll =>
        /\ ExplanationThreaded
        /\ \A i \in 1..Len(call.out.steps) :
              LET st == call.out.steps[i]
              IN  st.sub.t = "rolled" => st.after = st.before \o st.sub.explanation

\* C6 amended: the lines of a nested roll are appended, in order, whatever the
\* policy, when the nested result is not empty; when it is empty none of them
\* is appended.
C6_ExplanationAppended ==
    IsRoll =>
        /\ ExplanationThreaded
        /\ \A i \in 1..Len(call.out.steps) :
              LET st == call.out.steps[i]
              IN  /\ (st.sub.t = "rolled" /\ st.sub.result # <<>>)
                       => st.after = st.before \o st.sub.explanation
                  /\ (st.sub.t = "rolled" /\ st.sub.result = <<>>)
                       => st.after = st.before

C6_Witness ==
    /\ IsRoll
    /\ Len(call.out.steps) = 2
    /\ \A i \in 1..2 : /\ call.out.steps[i].sub.t = "rolled"
                       /\ call.out.steps[i].sub.result # <<>>
    /\ call.out.steps[1].entry.Table.rop # call.out.steps[2].entry.Table.rop
    /\ Len(call.out.explanation) = 3

\* "\n".join(parts)
RECURSIVE JoinLines(_)
JoinLines(parts) ==
    IF parts = <<>> THEN <<>>
    ELSE IF Len(parts) = 1 THEN parts[1]
    ELSE parts[1] \o <<NL>> \o JoinLines(Tail(parts))

\* C7: the result is the contributions of the matching entries joined by one
\* newline, none before the first and none after the last.
C7_JoinedByNewline ==
    IsRoll => call.out.result = JoinLines(Contributions)

\* the document has a page whose Id range contains the rolled id
SomeMatch ==
    /\ call.out.rid.t = "int"
    /\ \E i \in 1..Len(book.Pages.v) : IdContains(book.Pages.v[i].Id, call.out.rid.v)

\* C8: roll() does not raise when no entry matches: the result is then empty
\* and the explanation the single line '<Die> -> **<rid>**'; the result is
\* not empty when some entry matches.
C8_NoMatchEmpty ==
    IsRoll =>
        /\ ~SomeMatch => /\ call.out.t = "rolled"
                         /\ call.out.result = <<>>
                         /\ call.out.explanation = <<ExplanationLine(table.Die, call.out.rid)>>
        /\ SomeMatch => (call.out.t = "rolled" /\ call.out.result # <<>>)

C8_Witness ==
    /\ IsRoll
    /\ book.Pages.v # <<>>
    /\ ~SomeMatch
    /\ call.out.rid.t = "int"
    /\ call.out.result = <<>>

-----------------------------------------------------------------------------
(* The cleanup at the end of TableEntry.result *)

TwoSpaces == <<" ", " ">>

\* C11: whatever the template and the count, the resolved text holds no '#',
\* no '$' and no two consecutive spaces, and with count 0 no numeral is
\* inserted (the templates of the model hold no digit).
C11_CleanText ==
    resolved.t = "str" =>
        /\ ~Contains(resolved.v, Hash)
        /\ ~Contains(resolved.v, <<"$">>)
        /\ ~Contains(resolved.v, TwoSpaces)
        /\ count = 0 => \A i \in 1..Len(resolved.v) : ~IsDigit(resolved.v[i])

-----------------------------------------------------------------------------
(* The range specification: id_as_range of a Page and of a GroupOfPages    *)
(* over the well-formed Ids "N" and "A-B" with A <= B                      *)

SingleId(n) == ToDecimal(n)
RangeId(a, b) == ToDecimal(a) \o <<"-">> \o ToDecimal(b)

RangeIds ==
    { SingleId(n) : n \in 0..MaxId }
    \cup { RangeId(ab[1], ab[2]) : ab \in { x \in (0..MaxId) \X (0..MaxId) : x[1] <= x[2] } }

InitRange ==
    /\ entry \in { [t |-> "page", Id |-> StrV(id)] : id \in RangeIds }
    /\ book = Absent /\ table = Absent /\ call = Absent
    /\ count = 0 /\ resolved = Absent
    /\ NoApp

\* entry.id_as_range read on the Page
PageRange ==
    /\ call' = [t |-> "id_as_range", of |-> "Page", out |-> Page_id_as_range(entry)]
    /\ UNCHANGED <<book, table, entry, count, resolved, appVars, stack>>

\* id_as_range read on the group Book.load makes of two pages with this Id
GroupRange ==
    /\ call' = [t |-> "id_as_range", of |-> "GroupOfPages",
                out |-> GroupOfPages_id_as_range(GroupOfPages(entry, entry))]
    /\ UNCHANGED <<book, table, entry, count, resolved, appVars, stack>>

NextRange == PageRange \/ GroupRange

SpecRange == InitRange /\ [][NextRange]_vars

IsRange == call.t = "id_as_range"

\* C12: for an Id "N" or "A-B" with A <= B, id_as_range of a Page and of a
\* GroupOfPages holds exactly the integers of [A,B] ({N} for "N"), and both
\* classes give the same range for the same Id.
C12_RangeInclusive ==
    IsRange =>
        /\ call.out.t = "range"
        /\ \A a, b \in 0..MaxId :
              (a <= b /\ (entry.Id.v = RangeId(a, b) \/ (a = b /\ entry.Id.v = SingleId(a))))
                => /\ call.out.start = a
                   /\ \A n \in -1..(MaxId + 1) :
                         InRange(IntV(n), call.out) <=> (a <= n /\ n <= b)
        /\ Page_id_as_range(entry) = GroupOfPages_id_as_range(GroupOfPages(entry, entry))

C12_Witness ==
    /\ IsRange /\ call.of = "GroupOfPages"
    /\ entry.Id.v = <<"9", "-", "1", "0">>
    /\ InRange(IntV(9), call.out) /\ InRange(IntV(10), call.out)
    /\ ~InRange(IntV(8), call.out) /\ ~InRange(IntV(11), call.out)

-----------------------------------------------------------------------------
(* The load specification: table documents whose pages share Ids, lack an  *)
(* Id, or carry an Id that is no integer or range; it has the actions of   *)
(* the table specification                                                 *)

\* the Id of a page dict: no key, not a number, a reverse range, "N", "A-B"
LoadIds == { Absent, StrV(<<"x">>), StrV(<<"2", "-", "1">>),
             StrV(<<"1">>), StrV(<<"1", "-", "2">>) }

LoadEntryDicts ==
    { [Id |-> id, Details |-> <<"a">>, Number |-> Absent, Table |-> Absent] : id \in LoadIds }
    \cup { PageDict(id, <<"b">>, Absent, Absent) : id \in Ids }

LoadPageLists == UNION { [1..n -> LoadEntryDicts] : n \in 0..MaxLoadPages }

LoadDicts == { TableDict(Chars("1", "d", "2"), Absent, Absent, pages) : pages \in LoadPageLists }

InitLoad ==
    /\ book \in LoadDicts
    /\ table = Absent
    /\ call = Absent
    /\ entry = Absent /\ count = 0 /\ resolved = Absent
    /\ NoApp

SpecLoad == InitLoad /\ [][Next]_vars

\* the Id string denotes a non-empty integer range: "N", or "A-B" with A <= B
WellFormedId(id) ==
    /\ id.t = "str"
    /\ LET values == SplitDash(id.v)
       IN  /\ Len(values) \in {1, 2}
           /\ \A i \in 1..Len(values) : ParseInt(values[i]).t = "int"
           /\ ParseInt(values[1]).v <= ParseInt(values[Len(values)]).v

\* C13: loading fails when some page's Id is absent, is no integer or
\* integer range, or is a reverse range; so every page Id of a loaded book
\* denotes a non-empty range and no find or roll fails because of an Id.
C13_LoadValidatesIds ==
    /\ (table # Absent /\ \E i \in 1..Len(book.Pages.v) : ~WellFormedId(book.Pages.v[i].Id))
          => table.t = "raised"
    /\ (IsFind \/ IsRoll) => call.out.t # "raised"

\* the positions of the document's pages whose Id is id
Sharing(id) == { j \in 1..Len(book.Pages.v) : book.Pages.v[j].Id = id }

\* the slots of the loaded mapping whose key is id
Slots(id) == { k \in 1..Len(table.pages) : table.pages[k].key = id }

Lowest(S) == CHOOSE j \in S : \A k \in S : j <= k

\* the pages at the positions S as loaded entries, in document order
RECURSIVE InOrder(_)
InOrder(S) ==
    IF S = {} THEN <<>>
    ELSE <<TableEntry_init(book.Pages.v[Lowest(S)])>> \o InOrder(S \ {Lowest(S)})

\* C14: after loading a document in which exactly two pages share an Id the
\* mapping holds one slot for that Id, a GroupOfPages of those two pages in
\* document order whose Id is the Id of each member; an Id used once maps to
\* a single Page.
C14_TwoShareOneGroup ==
    table.t = "table" =>
        \A i \in 1..Len(book.Pages.v) :
            LET id == book.Pages.v[i].Id
            IN  /\ Cardinality(Slots(id)) = 1
                /\ LET slot == table.pages[Lowest(Slots(id))].val
                   IN  /\ Cardinality(Sharing(id)) = 1 =>
                             (slot.t = "page" /\ <<slot>> = InOrder(Sharing(id)))
                       /\ Cardinality(Sharing(id)) = 2 =>
                             /\ slot.t = "group"
                             /\ slot.pages = InOrder(Sharing(id))
                             /\ slot.gid = id
                             /\ \A k \in 1..2 : slot.pages[k].Id = slot.gid

C14_Witness ==
    /\ table.t = "table"
    /\ Len(book.Pages.v) = 3 /\ Len(table.pages) = 2
    /\ table.pages[1].val.t = "page"
    /\ table.pages[2].val.t = "group"
    /\ table.pages[2].val.pages[1].Details = <<"a">>
    /\ table.pages[2].val.pages[2].Details = <<"b">>

\* C15: loading a document with three or more pages sharing one Id succeeds
\* and yields one GroupOfPages for that Id, holding all of those pages in
\* document order.
C15_ThreeShareOneGroup ==
    (/\ table # Absent
     /\ \A i \in 1..Len(book.Pages.v) : WellFormedId(book.Pages.v[i].Id)
     /\ \E i \in 1..Len(book.Pages.v) : Cardinality(Sharing(book.Pages.v[i].Id)) >= 3)
    => /\ table.t = "table"
       /\ \A i \in 1..Len(book.Pages.v) :
             LET id == book.Pages.v[i].Id
             IN  Cardinality(Sharing(id)) >= 3 =>
                    /\ Cardinality(Slots(id)) = 1
                    /\ table.pages[Lowest(Slots(id))].val.t = "group"
                    /\ table.pages[Lowest(Slots(id))].val.pages = InOrder(Sharing(id))

\* C19: roll() processes the entries matching the rolled id in the order in
\* which they appear in the document, also when the pages of a group are
\* interleaved with other matching entries.
C19_DocumentOrder ==
    (IsRoll /\ call.out.t = "rolled" /\ call.out.rid.t = "int") =>
        Processed = Matching(book.Pages.v, call.out.rid.v)

-----------------------------------------------------------------------------
(* Which table's policy governs the merge of a nested roll *)

\* the policy a table document declares, Replace when it gives no "rop"
DeclaredPolicy(doc) == IF doc.rop.t = "absent" THEN "replace" ELSE doc.rop.v

\* the page dict of the rolled document the entry e was loaded from
DocOf(e) ==
    book.Pages.v[CHOOSE i \in 1..Len(book.Pages.v) : TableEntry_init(book.Pages.v[i]) = e]

\* a non-empty nested result merged into the entry's text under a policy
Merged(rop, text, sresult) ==
    CASE rop = "replace" -> sresult
      [] rop = "append" -> text \o <<NL>> \o sresult
      [] rop = "concat" -> text \o sresult

\* step of the loop of roll in which a nested table returned a result
MergingStep(st) == st.sub.t = "rolled" /\ st.sub.result # <<>>

\* C20 as stated: the result of the nested table S of an entry of T is merged
\* under the policy of T, the table being rolled, Replace when T's document
\* gives no "rop", and not under the policy declared on S.
C20_Original ==
    IsRoll => \A i \in 1..Len(call.out.steps) :
        LET st == call.out.steps[i]
        IN  MergingStep(st)
              => st.cresult = Merged(DeclaredPolicy(book), st.text, st.sub.result)

\* C20 amended: the result of S is merged under the policy declared on S, the
\* nested table, Replace when S's document gives no "rop", and not under the
\* policy of T.
C20_NestedPolicy ==
    IsRoll => \A i \in 1..Len(call.out.steps) :
        LET st == call.out.steps[i]
        IN  MergingStep(st)
              => st.cresult = Merged(DeclaredPolicy(DocOf(st.entry).Table), st.text,
                                     st.sub.result)

C20_Witness ==
    /\ IsRoll
    /\ DeclaredPolicy(book) = "append"
    /\ \E i \in 1..Len(call.out.steps) :
          /\ MergingStep(call.out.steps[i])
          /\ DocOf(call.out.steps[i].entry).Table.rop = RopV("concat")
          /\ call.out.steps[i].cresult = <<"a", NL, "b">>
    /\ \E i \in 1..Len(call.out.steps) :
          /\ MergingStep(call.out.steps[i])
          /\ DocOf(call.out.steps[i].entry).Table.rop = Absent
          /\ call.out.steps[i].cresult = <<NL, "b">>

-----------------------------------------------------------------------------
(* Library: add_book, load, search *)

\* Book(file): Book.__init__ and Book.load without the pages
Book_init(doc) ==
    IF ~Truthy(doc) THEN Raised("RuntimeError")
    ELSE IF doc.Id.t = "absent" \/ doc.Title.t = "absent" \/ doc.Type.t = "absent"
    THEN Raised("KeyError")
    ELSE IF ~(doc.Type.t = "int" /\ doc.Type.v \in {1, 2}) THEN Raised("ValueError")
    ELSE [t |-> "book", bid |-> doc.Id, title |-> doc.Title, type |-> doc.Type.v]

\* MonsterBook(file): Book.load(book, True); the manuals of the model hold
\* no page, so make_page is never called
MonsterBook_init(doc) ==
    IF Book_init(doc).t = "raised" THEN Book_init(doc)
    ELSE IF doc.Pages.t = "absent" THEN Raised("KeyError")
    ELSE LET pages == LoadPages(doc.Pages.v, [t |-> "pages", items |-> <<>>])
         IN  IF pages.t = "raised" THEN pages
             ELSE [t |-> "monsters", bid |-> doc.Id, title |-> doc.Title,
                   type |-> doc.Type.v, pages |-> pages.items]

\* the book Library.add_book builds from a file, or the exception it raises
add_book(doc) ==
    IF Book_init(doc).t = "raised" THEN Book_init(doc)
    ELSE IF Book_init(doc).type = 1 THEN MonsterBook_init(doc)
    ELSE IF Book_init(doc).type = 2 THEN Table_init(doc)
    ELSE Book_init(doc)

\* self.__books[book.bid] = book
PutBook(books, b) ==
    IF KeyIndex(books, b.bid) = 0 THEN Append(books, [key |-> b.bid, val |-> b])
    ELSE [books EXCEPT ![KeyIndex(books, b.bid)] = [key |-> b.bid, val |-> b]]

\* the loop of Library.load over the files left, books being the dict so far
RECURSIVE Library_load(_, _)
Library_load(files, books) ==
    IF files = <<>> THEN [t |-> "library", books |-> books]
    ELSE IF add_book(Head(files)).t = "raised" THEN add_book(Head(files))
    ELSE Library_load(Tail(files), PutBook(books, add_book(Head(files))))

\* the first book whose id starts with bid, however many there are
Library_search_First(lib, bid) ==
    LET bids == SelectSeq([i \in 1..Len(lib.books) |-> lib.books[i].key],
                          LAMBDA x : StartsWith(x.v, bid))
    IN  IF Len(bids) = 0 THEN NoneV
        ELSE lib.books[KeyIndex(lib.books, bids[1])].val

\* Library.search(bid)
Library_search(lib, bid) ==
    LET bids == SelectSeq([i \in 1..Len(lib.books) |-> lib.books[i].key],
                          LAMBDA x : StartsWith(x.v, bid))
    IN  IF Len(bids) # 1 THEN NoneV
        ELSE lib.books[KeyIndex(lib.books, bids[1])].val

-----------------------------------------------------------------------------
(* Settings and the 'set' command *)

Language == <<"l", "a", "n", "g", "u", "a", "g", "e">>
OpenGame == <<"o", "p", "e", "n", "g", "a", "m", "e">>
System == <<"s", "y", "s", "t", "e", "m">>
Mode == <<"m", "o", "d", "e">>
Attributes == <<"a", "t", "t", "r", "i", "b", "u", "t", "e", "s">>
ScoreThreshold == <<"s", "c", "o", "r", "e", "_", "t", "h", "r", "e", "s", "h", "o", "l", "d">>
Monsters == <<"m", "o", "n", "s", "t", "e", "r", "s">>

USER_FACING_SETTINGS ==
    <<Language, OpenGame, System, Mode, Attributes, ScoreThreshold, Monsters>>

\* Settings.__init__ with no settings file (score_threshold, the int 60, is
\* written as text like the values 'set' stores; nothing here reads it)
DefaultSettings ==
    [k \in { USER_FACING_SETTINGS[i] : i \in 1..Len(USER_FACING_SETTINGS) } |->
        CASE k = Language -> "en"
          [] k = OpenGame -> "yes"
          [] k = System -> "ve"
          [] k = Mode -> "default"
          [] k = Attributes -> "ve"
          [] k = ScoreThreshold -> "60"
          [] k = Monsters -> "mmbecmi"]

\* Settings.get_valid_values(setting) for a user-facing setting
get_valid_values(setting) ==
    CASE setting = OpenGame -> <<"yes", "no">>
      [] setting = System -> <<"ve", "ose">>
      [] setting = Attributes -> <<"inorder", "inorder+", "ve", "heroic">>
      [] OTHER -> <<>>

\* Settings.set refuses the value
Refused(setting, value) ==
    /\ get_valid_values(setting) # <<>>
    /\ \A i \in 1..Len(get_valid_values(setting)) : get_valid_values(setting)[i] # value

\* the directories of the books
Root == <<"books">>
VeEn == <<"ve", "en">>
OseEn == <<"ose", "en">>

\* Settings.library_paths: the top directory, then the directories of the
\* system and of the mode in the language, if they exist
library_paths(s, dk) ==
    <<Root>>
    \o (IF <<s[System], s[Language]>> \in DOMAIN dk THEN << <<s[System], s[Language]>> >> ELSE <<>>)
    \o (IF <<s[Mode], s[Language]>> \in DOMAIN dk THEN << <<s[Mode], s[Language]>> >> ELSE <<>>)

\* the files Library.load goes through, in order
Files(s, dk) == Flatten([i \in 1..Len(library_paths(s, dk)) |-> dk[library_paths(s, dk)[i]]])

\* Library(settings) at the start of its load
NewLibrary(s, dk) == [t |-> "loading", books |-> <<>>, todo |-> Files(s, dk)]

\* a message sent to the channel
Sent(m) == [t |-> "sent", v |-> m]

\* the partial Library assigned although its load raised
Unassigned_Partial(lib, ld) == [t |-> "library", books |-> ld.books]

\* App.library when Library(settings) raised: the assignment is not reached
Unassigned(lib, ld) == lib

-----------------------------------------------------------------------------
(* Documents and directories of the library specification *)

BookDict(id, title, type, die) ==
    [t |-> "dict", Id |-> StrV(id), Title |-> title, Type |-> IntV(type), Die |-> die,
     forced_roll |-> Absent, rop |-> Absent, Pages |-> [t |-> "list", v |-> <<>>]]

Mmb == BookDict(<<"m", "m", "b">>, StrV(<<"B">>), 1, Absent)
Mmo == BookDict(<<"m", "m", "o">>, StrV(<<"O">>), 1, Absent)
Tab == BookDict(<<"t">>, StrV(<<"T">>), 2, StrV(Chars("1", "d", "2")))
\* malformed: a table without Die, a book without Title, an unknown Type
NoDie == BookDict(<<"t", "d">>, StrV(<<"D">>), 2, Absent)
NoTitle == BookDict(<<"n">>, Absent, 1, Absent)
BadType == BookDict(<<"u">>, StrV(<<"U">>), 3, Absent)

LibDocs == { Mmb, Mmo, Tab, NoDie, NoTitle, BadType }

FileLists(n) == UNION { [1..k -> LibDocs] : k \in 0..n }

Disks ==
    { [d \in {Root, VeEn, OseEn} |->
          CASE d = Root -> files[1] [] d = VeEn -> files[2] [] d = OseEn -> files[3]]
        : files \in FileLists(MaxFiles) \X { <<>>, <<Tab>> } \X FileLists(1) }

\* what the owner types after 'set'
SetInputs ==
    { <<Language, "ca">>, <<Language, "en">>, <<<<"s", "y">>, "ose">>, <<System, "ve">>,
      <<System, "xx">>, <<<<"s">>, "ose">>, <<Mode, "default">>, <<OpenGame, "no">>,
      <<<<"o">>, "maybe">> }

\* the book ids asked for
Prefixes == { <<>>, <<"m">>, <<"m", "m">>, <<"m", "m", "b">>, <<"t">>, <<"x">> }

-----------------------------------------------------------------------------
(* The library specification                                               *)
(*                                                                         *)
(* The bot runs its commands one at a time.  Library(settings) is followed *)
(* file by file: loading is the object under construction, which nothing   *)
(* but the running constructor refers to, and no command starts before the *)
(* constructor has returned or raised.                                     *)

\* App.__init__ has reached self.library = Library(settings)
InitLibrary ==
    /\ disk \in Disks
    /\ settings = DefaultSettings
    /\ library = Absent
    /\ loading = NewLibrary(DefaultSettings, disk)
    /\ call = [t |-> "init", reload |-> TRUE, out |-> Absent]
    /\ book = Absent /\ table = Absent
    /\ entry = Absent /\ count = 0 /\ resolved = Absent
    /\ stack = <<>>

\* one iteration of the loop of Library.load: add_book(file); an exception
\* leaves Library(settings) and the command that called it
AddBook ==
    /\ loading.t = "loading" /\ loading.todo # <<>>
    /\ IF add_book(Head(loading.todo)).t = "raised"
       THEN /\ loading' = [t |-> "raised", books |-> loading.books]
            /\ library' = Unassigned(library, loading)
            /\ call' = [call EXCEPT !.out = add_book(Head(loading.todo))]
       ELSE /\ loading' = [loading EXCEPT !.books = PutBook(@, add_book(Head(loading.todo))),
                                          !.todo = Tail(@)]
            /\ UNCHANGED <<library, call>>
    /\ UNCHANGED <<book, table, entry, count, resolved, disk, settings, stack>>

\* Library(settings) returns and self.library is assigned; the command ends
Assign ==
    /\ loading.t = "loading" /\ loading.todo = <<>>
    /\ library' = [t |-> "library", books |-> loading.books]
    /\ loading' = Absent
    /\ call' = [call EXCEPT !.out = Sent(IF call.t = "init" THEN "ready" ELSE "changed")]
    /\ UNCHANGED <<book, table, entry, count, resolved, disk, settings, stack>>

\* the settings whose names start with what was typed
Found(setting) == SelectSeq(USER_FACING_SETTINGS, LAMBDA key : StartsWith(key, setting))

\* the command 'set <setting> <value>' up to the call of reload_library
Set(setting, value) ==
    /\ library.t = "library" /\ loading = Absent /\ call = Absent
    /\ IF Len(Found(setting)) # 1
       THEN /\ call' = [t |-> "set", reload |-> FALSE, out |-> Sent("invalid setting")]
            /\ UNCHANGED <<settings, loading>>
       ELSE IF Refused(Found(setting)[1], value)
       THEN /\ call' = [t |-> "set", reload |-> FALSE, out |-> Sent("invalid value")]
            /\ UNCHANGED <<settings, loading>>
       ELSE /\ settings' = [settings EXCEPT ![Found(setting)[1]] = value]
            /\ IF Found(setting)[1] \in {Language, System, Mode}
               THEN /\ loading' = NewLibrary(settings', disk)
                    /\ call' = [t |-> "set", reload |-> TRUE, out |-> Absent]
               ELSE /\ call' = [t |-> "set", reload |-> FALSE, out |-> Sent("changed")]
                    /\ UNCHANGED loading
    /\ UNCHANGED <<book, table, entry, count, resolved, disk, library, stack>>

\* self.bot.library.search(bid) of the commands monster, mlist and rollt
Search(bid) ==
    /\ library.t = "library" /\ loading = Absent /\ call = Absent
    /\ call' = [t |-> "search", bid |-> bid, out |-> Library_search(library, bid)]
    /\ UNCHANGED <<book, table, entry, count, resolved, appVars, stack>>

NextLibrary ==
    \/ AddBook
    \/ Assign
    \/ \E sv \in SetInputs : Set(sv[1], sv[2])
    \/ \E bid \in Prefixes : Search(bid)
    \/ Return

SpecLibrary == InitLibrary /\ [][NextLibrary]_vars

-----------------------------------------------------------------------------
(* Properties of the library *)

IsSearch == call.t = "search"

\* the slots of the library whose book id starts with the prefix asked for
Candidates == { k \in 1..Len(library.books) : StartsWith(library.books[k].key.v, call.bid) }

\* C16: search(prefix) returns the book b exactly when b is the only book of
\* the library whose id starts with prefix, and None, without raising, when
\* no id or more than one id starts with it.
C16_SearchUnique ==
    IsSearch =>
        /\ Cardinality(Candidates) = 1
              => \A k \in Candidates : /\ call.out = library.books[k].val
                                       /\ call.out.bid = library.books[k].key
        /\ Cardinality(Candidates) # 1 => call.out = NoneV

C16_Witness ==
    /\ IsSearch /\ call.bid = <<"m", "m">>
    /\ Len(library.books) = 2
    /\ library.books[1].key = StrV(<<"t">>)
    /\ call.out.t = "monsters" /\ call.out.bid = StrV(<<"m", "m", "b">>)

\* a load of the library has ended, by returning or by raising
LoadEnded == call.t \in {"init", "set"} /\ call.reload /\ call.out # Absent

\* C17: when a document of the search paths is malformed the load skips it
\* and does not raise, and every well-formed document, enumerated before or
\* after it, is in the resulting Library.
C17_SkipsMalformed ==
    LoadEnded =>
        /\ call.out.t # "raised"
        /\ library.t = "library"
        /\ \A i \in 1..Len(Files(settings, disk)) :
              add_book(Files(settings, disk)[i]).t # "raised"
                => \E k \in 1..Len(library.books) :
                      library.books[k].key = Files(settings, disk)[i].Id

\* C18: across 'set' commands and reloads the library reference is, at every
\* step, the whole previous Library or the whole Library of the new settings,
\* never a partially filled one, also when the reload fails part-way.
C18_WholeLibrary ==
    [][ /\ library'.t \in {"absent", "library"}
        /\ library' # library => library' = Library_load(Files(settings', disk'), <<>>)
      ]_vars

C18_Witness ==
    /\ call.t = "set" /\ call.out.t = "raised"
    /\ loading.t = "raised" /\ loading.books # <<>>
    /\ library.t = "library"
    /\ library.books # loading.books
    /\ library = Library_load(Files([settings EXCEPT ![System] = "ve"], disk), <<>>)

-----------------------------------------------------------------------------
(* Table.roll call by call: the recursion into nested tables *)

\* the entry refers back to the table that holds it
Nested_Self(T, e) == T

\* entry.Table, the Table that TableEntry.add built from the record nested
\* in the entry's own page dict
Nested(T, e) == e.Table

\* the locals of a call of T.roll() when its for loop starts; text holds the
\* entry.result of the entry whose nested roll is in progress
Frame(T, rid, entries) ==
    [T |-> T, todo |-> entries.v, result |-> <<>>,
     explanation |-> <<ExplanationLine(T.Die, rid)>>, text |-> <<>>]

\* the documents: every page matches a roll of 1 or 2; a table holds no page,
\* one page, or a plain page before or after another page
LeafPage == PageDict(<<"1", "-", "2">>, <<"a">>, Absent, Absent)

RECURSIVE NestedDicts(_)
NestedDicts(depth) ==
    LET pages == { LeafPage } \cup
                 (IF depth = 1 THEN {}
                  ELSE { PageDict(<<"1", "-", "2">>, <<"a">>, Absent, tab) :
                            tab \in NestedDicts(depth - 1) })
    IN  { TableDict(Chars("1", "d", "2"), Absent, Absent, <<>>) }
        \cup { TableDict(Chars("1", "d", "2"), Absent, Absent, <<pg>>) : pg \in pages }
        \cup { TableDict(Chars("1", "d", "2"), Absent, Absent, <<LeafPage, pg>>) : pg \in pages }
        \cup { TableDict(Chars("1", "d", "2"), Absent, Absent, <<pg, LeafPage>>) : pg \in pages }

InitRecursion ==
    /\ book \in NestedDicts(MaxDepth)
    /\ table = Absent
    /\ call = Absent
    /\ entry = Absent /\ count = 0 /\ resolved = Absent
    /\ NoApp

\* table.roll() is called: roll_dice, find, and the loop is about to start
RollEnter ==
    /\ table.t = "table" /\ stack = <<>> /\ call = Absent
    /\ \E die \in Dice :
          IF find(table, RolledId(table, die)).t = "raised"
          THEN /\ call' = [t |-> "returned", out |-> find(table, RolledId(table, die))]
               /\ UNCHANGED stack
          ELSE /\ stack' = <<Frame(table, RolledId(table, die),
                                   find(table, RolledId(table, die)))>>
               /\ UNCHANGED call
    /\ UNCHANGED <<book, table, entry, count, resolved, appVars>>

\* one entry of the innermost loop: entry.result, then either the result is
\* accumulated or entry.Table.roll() is called, which adds a frame
RollIterate ==
    /\ stack # <<>> /\ stack[Len(stack)].todo # <<>>
    /\ LET n == Len(stack)
           e == Head(stack[n].todo)
       IN  \E rolled \in (IF HasNumber(e) THEN Counts ELSE {0}) :
             IF ~Truthy(e.Table)
             THEN /\ stack' = [stack EXCEPT ![n].result = Accumulate(@, result(e, rolled)),
                                            ![n].todo = Tail(@)]
                  /\ UNCHANGED call
             ELSE \E die \in Dice :
                    LET S == Nested(stack[n].T, e)
                    IN  IF n >= MaxStack
                        THEN /\ stack' = <<>>
                             /\ call' = [t |-> "returned", out |-> Raised("RecursionError")]
                        ELSE IF find(S, RolledId(S, die)).t = "raised"
                        THEN /\ stack' = <<>>
                             /\ call' = [t |-> "returned", out |-> find(S, RolledId(S, die))]
                        ELSE /\ stack' = Append([stack EXCEPT ![n].text = result(e, rolled)],
                                                Frame(S, RolledId(S, die),
                                                      find(S, RolledId(S, die))))
                             /\ UNCHANGED call
    /\ UNCHANGED <<book, table, entry, count, resolved, appVars>>

\* the innermost loop is over: roll() returns result and explanation, to the
\* caller's loop, which merges them, or to the command that called it
RollLeave ==
    /\ stack # <<>> /\ stack[Len(stack)].todo = <<>>
    /\ LET n == Len(stack)
           top == stack[n]
       IN  IF n = 1
           THEN /\ stack' = <<>>
                /\ call' = [t |-> "returned",
                            out |-> [t |-> "rolled", result |-> top.result,
                                     explanation |-> top.explanation]]
           ELSE /\ stack' = [SubSeq(stack, 1, n - 1) EXCEPT
                                ![n - 1].result =
                                    Accumulate(@, Merge(Policy(Head(stack[n - 1].todo)),
                                                        stack[n - 1].text, top.result)),
                                ![n - 1].explanation = Explain(@, top.result, top.explanation),
                                ![n - 1].todo = Tail(@)]
                /\ UNCHANGED call
    /\ UNCHANGED <<book, table, entry, count, resolved, appVars>>

NextRecursion == Construct \/ RollEnter \/ RollIterate \/ RollLeave \/ Return

\* the interpreter goes on executing a call of roll() that has started: the
\* code is synchronous and the Dice Evaluator is assumed to return
SpecRecursion ==
    /\ InitRecursion
    /\ [][NextRecursion]_vars
    /\ WF_vars(RollIterate \/ RollLeave)

\* nesting depth of a table document: 1 for a table without nested table
RECURSIVE NestingDepth(_)
NestingDepth(doc) ==
    LET subs == { i \in 1..Len(doc.Pages.v) : Truthy(doc.Pages.v[i].Table) }
    IN  IF subs = {} THEN 1
        ELSE 1 + NestingDepth(doc.Pages.v[
                     CHOOSE i \in subs :
                        \A j \in subs : NestingDepth(doc.Pages.v[j].Table)
                                          <= NestingDepth(doc.Pages.v[i].Table)].Table)

\* C21: roll() terminates on every loaded Table when the Dice Evaluator
\* returns: the tables in the frames are nested in one another as in the
\* document, so the depth of the recursion never exceeds the nesting depth of
\* the document, no recursion limit is hit, and every call that has started
\* returns.
C21_RollTerminates ==
    /\ [](Len(stack) <= NestingDepth(book))
    /\ [](call.t = "returned" => call.out.t = "rolled")
    /\ (stack # <<>>) ~> (stack = <<>> /\ call.t = "returned")

C21_Witness ==
    /\ Len(stack) = MaxDepth
    /\ NestingDepth(book) = MaxDepth
    /\ stack[Len(stack)].todo = <<>>
    /\ stack[1].todo # <<>>

-----------------------------------------------------------------------------
(* The query specification: the queries of the engine on a table built     *)
(* from a document, and the queries of the application on its library; the *)
(* two share no state                                                      *)

\* Book.search(pid)
Book_search(B, pid) ==
    IF pid = <<>> THEN NoneV
    ELSE IF KeyIndex(B.pages, StrV(pid)) = 0 THEN NoneV
    ELSE B.pages[KeyIndex(B.pages, StrV(pid))].val

\* Book.index(): self._pages.values()
Book_index(B) == [t |-> "list", v |-> [i \in 1..Len(B.pages) |-> B.pages[i].val]]

\* the page ids asked for
Pids == { <<>>, <<"1">>, <<"1", "-", "2">>, <<"3">> }

\* table.search(pid)
BookSearch(pid) ==
    /\ table.t = "table" /\ call = Absent
    /\ call' = [t |-> "book_search", pid |-> pid, out |-> Book_search(table, pid)]
    /\ UNCHANGED <<book, table, entry, count, resolved, appVars, stack>>

\* table.index()
Index ==
    /\ table.t = "table" /\ call = Absent
    /\ call' = [t |-> "index", out |-> Book_index(table)]
    /\ UNCHANGED <<book, table, entry, count, resolved, appVars, stack>>

InitQueries == Init \/ InitLibrary

\* a table is constructed where a document is at hand
NextQueries ==
    \/ book.t = "dict" /\ Construct
    \/ \E rid \in Dice : Find(rid)
    \/ Roll
    \/ \E pid \in Pids : BookSearch(pid)
    \/ Index
    \/ NextLibrary

SpecQueries == InitQueries /\ [][NextQueries]_vars

\* a step in which a query is made and returns
QueryStep ==
    /\ call = Absent
    /\ call'.t \in {"find", "roll", "book_search", "index", "search"}

\* C22: the queries leave the loaded content unchanged: a step of roll, find,
\* Book.search, Book.index or Library.search changes neither the table (id,
\* title, type, page mapping with its keys, order and groups, the entries'
\* fields, Die, forced roll, policy) nor the library, and the table stays
\* what the load made of the document.
C22_QueriesReadOnly ==
    /\ [][QueryStep => (table' = table /\ library' = library)]_vars
    /\ [](table.t = "table" => table = Table_init(book))

C22_Witness ==
    /\ IsRoll /\ call.out.t = "rolled"
    /\ Len(call.out.steps) = 2
    /\ HasNumber(call.out.steps[1].entry)
    /\ call.out.steps[2].sub.t = "rolled"
    /\ \E i \in 1..Len(table.pages) : table.pages[i].val.t = "group"
    /\ table = Table_init(book)

====
